---------------------------- MODULE Spec2Model ----------------------------
(***************************************************************************)
(* A model of the HTTP handlers of the downloader repository.             *)
(*                                                                         *)
(*   SpecInfo      the four POST /api/fetch-info handlers                  *)
(*                 (src/api/index.js:30, src/api/index.js:161,             *)
(*                  src/unnamed/part_000:25, src/unnamed/part_001:57)      *)
(*   SpecDownload  the four GET /api/download handlers                     *)
(*                 (src/api/index.js:80, src/api/index.js:207,             *)
(*                  src/unnamed/part_000:70, src/unnamed/part_001:103)     *)
(*   SpecJob       the Firebase functions downloadVideo and startDownload  *)
(*                 (src/index.js:13, src/index.js:39)                      *)
(*                                                                         *)
(* The extraction library, ffmpeg, yt-dlp, Firestore and the bucket are    *)
(* the environment: their results are inputs drawn from small sets.        *)
(***************************************************************************)
EXTENDS Integers, Sequences, FiniteSets

VARIABLES
    \* ---- POST /api/fetch-info (one request at a time) ----
    ipc,        \* "idle" | "awaiting" (await ytdl.getInfo) | "done"
    ireq,       \* [variant, url] of the request being handled
    iinfo,      \* what getInfo resolved with for this request (or NoInfo)
    ires,       \* the response: [status, body]
    icalls,     \* number of ytdl.getInfo calls made for this request
    ierr,       \* the message getInfo rejected with for this request, or ""
    \* ---- GET /api/download (one request at a time) ----
    dpc,        \* "idle" | "streaming" | "done"
    dreq,       \* [variant, url, itag, quality, title]
    dres,       \* [status, headersSent, ended, hdr, body, sends]
    dstream,    \* [opened, pipeline, state, format, chunks]
    \* ---- downloadVideo / startDownload (src/index.js) ----
    db,         \* Firestore collection "downloads": DocIds -> record | NoDoc
    files,      \* paths that exist in os.tmpdir()
    bucket,     \* destinations that exist in the storage bucket
    pending,    \* un-awaited progress updates in flight to Firestore
    vpc,        \* downloadVideo: "idle" | "info" | "set" | "done" |
                \*   "info_failed" | "set_failed" (answered by the catch)
    vreq,       \* downloadVideo: [url, downloadId]
    vres,       \* downloadVideo: the response
    jpc,        \* startDownload, per request: position of the handler
    jreq,       \* startDownload, per request: [downloadId, formatId, url]
    jres,       \* startDownload, per request: the response
    jlog,       \* startDownload, per request: the effects made, in order
    nprog       \* startDownload, per request: progress events emitted

infoVars == <<ipc, ireq, iinfo, ires, icalls, ierr>>
dlVars   == <<dpc, dreq, dres, dstream>>
jobVars  == <<db, files, bucket, pending, vpc, vreq, vres, jpc, jreq, jres, jlog, nprog>>
vars     == <<infoVars, dlVars, jobVars>>

-----------------------------------------------------------------------------
(* Bounds *)

\* longest info.formats list the extraction call reports
MaxFormats == 3

\* most chunks a download stream delivers before it ends or fails
MaxChunks == 2

\* most progress events one yt-dlp process emits
MaxProgress == 1

-----------------------------------------------------------------------------
(* Values shared by the handlers *)

\* a body field or query parameter that the request does not carry
Undefined == "<undefined>"

\* JavaScript truthiness of a string-or-undefined value: !x is true for
\* undefined and for the empty string
Truthy(x) == x /= Undefined /\ x /= ""

ValidUrl   == "https://youtu.be/abc"
InvalidUrl == "not-a-video-url"
Urls       == {Undefined, "", InvalidUrl, ValidUrl}

\* ytdl.validateURL: the platform validity check of ytdl-core
ValidateURL(url) == url = ValidUrl

\* error messages the extraction library can fail with
UpstreamErrors == {"Video unavailable", "Status code: 410"}

-----------------------------------------------------------------------------
(* The extraction library's view of a video: info.formats                   *)

\* Stream descriptors as ytdl-core reports them.  height and contentLength
\* are <<>> when the field is absent (undefined) and <<n>> when present;
\* qualityLabel is "" (falsy) on audio-only streams.  itag is written as the
\* decimal string JSON and the query string carry.
F18  == [itag |-> "18",  qualityLabel |-> "360p",  container |-> "mp4",
         hasVideo |-> TRUE,  hasAudio |-> TRUE,  height |-> <<360>>,
         contentLength |-> <<5242880>>]
F22  == [itag |-> "22",  qualityLabel |-> "720p",  container |-> "mp4",
         hasVideo |-> TRUE,  hasAudio |-> TRUE,  height |-> <<720>>,
         contentLength |-> <<>>]
F59  == [itag |-> "59",  qualityLabel |-> "480p",  container |-> "mp4",
         hasVideo |-> TRUE,  hasAudio |-> TRUE,  height |-> <<480>>,
         contentLength |-> <<15938355>>]
F137 == [itag |-> "137", qualityLabel |-> "1080p", container |-> "mp4",
         hasVideo |-> TRUE,  hasAudio |-> FALSE, height |-> <<1080>>,
         contentLength |-> <<73400320>>]
F140 == [itag |-> "140", qualityLabel |-> "",      container |-> "mp4",
         hasVideo |-> FALSE, hasAudio |-> TRUE,  height |-> <<>>,
         contentLength |-> <<3145728>>]
F43  == [itag |-> "43",  qualityLabel |-> "360p",  container |-> "webm",
         hasVideo |-> TRUE,  hasAudio |-> TRUE,  height |-> <<360>>,
         contentLength |-> <<>>]

KnownFormats == {F18, F22, F59, F137, F140, F43}

\* every list the extraction call may report, up to MaxFormats entries
FormatLists == UNION {[1..n -> KnownFormats] : n \in 0..MaxFormats}

\* info.videoDetails.thumbnails: possibly empty
ThumbnailLists == {<<>>, <<"thumb-small">>, <<"thumb-small", "thumb-large">>}

Infos == [formats : FormatLists, title : {"Some Title"}, thumbnails : ThumbnailLists]

NoInfo == [formats |-> <<>>, title |-> "", thumbnails |-> <<>>]

-----------------------------------------------------------------------------
(* POST /api/fetch-info                                                     *)

InfoVariants == {"api_ytdl", "api_muxer", "part_000", "part_001"}

\* the variants whose handler calls ytdl.validateURL before getInfo
ChecksValidity(v) == v \in {"api_ytdl", "part_000", "part_001"}

\* a guard that tests only for a missing URL in every variant
UrlCheck_OnlyRequired(v, url) ==
    IF ~Truthy(url) THEN "Video URL is required." ELSE ""

\* The guard in front of the try block: "" when the request passes, else the
\* error text of the 400 response.
UrlCheck(v, url) ==
    CASE v = "api_ytdl" ->
            IF ~Truthy(url) THEN "Video URL is required."
            ELSE IF ~ValidateURL(url)
                 THEN "Kripya ek valid YouTube URL daalein. (Currently only YouTube is fully supported)"
                 ELSE ""
      [] v = "api_muxer" ->
            IF ~Truthy(url) THEN "Video URL is required." ELSE ""
      [] OTHER ->
            IF ~Truthy(url) \/ ~ValidateURL(url)
            THEN "Kripya ek valid YouTube URL daalein." ELSE ""

\* the fixed text of the catch block's 500 response
InfoErrorText(v) ==
    CASE v \in {"api_ytdl", "api_muxer"} ->
            "Video information nahi mil payi. Kripya URL check karein."
      [] v = "part_000" ->
            "Video information nahi mil payi. URL ya network check karein."
      [] OTHER ->
            "Video information nahi mil payi. URL ya video ki availability check karein."

\* ytdl.filterFormats(formats, 'videoandaudio') of the muxer variant
VideoAndAudio(f) == f.hasVideo /\ f.hasAudio

\* the .filter(...) predicate; the muxer variant reaches the same conjunction
\* through filterFormats followed by .filter(qualityLabel && container)
KeepFormat(v, f) ==
    IF v = "api_muxer"
    THEN VideoAndAudio(f) /\ (f.qualityLabel /= "" /\ f.container = "mp4")
    ELSE f.qualityLabel /= "" /\ f.container = "mp4" /\ f.hasVideo /\ f.hasAudio

FilterFormats(v, formats) == SelectSeq(formats, LAMBDA f : KeepFormat(v, f))

\* the comparator with its operands swapped: lowest resolution first
CompareHeight_Ascending(a, b) ==
    IF a.height = <<>> \/ b.height = <<>> THEN 0 ELSE a.height[1] - b.height[1]

\* (a, b) => b.height - a.height; undefined - x is NaN, which sort reads as 0
CompareHeight(a, b) ==
    IF a.height = <<>> \/ b.height = <<>> THEN 0 ELSE b.height[1] - a.height[1]

\* Array.prototype.sort is stable: x, the later element, goes behind every
\* element that does not compare greater than it
RECURSIVE InsertByHeight(_, _)
InsertByHeight(x, s) ==
    IF s = <<>> THEN <<x>>
    ELSE IF CompareHeight(s[Len(s)], x) > 0
         THEN Append(InsertByHeight(x, SubSeq(s, 1, Len(s) - 1)), s[Len(s)])
         ELSE Append(s, x)

RECURSIVE SortByHeight(_)
SortByHeight(s) ==
    IF s = <<>> THEN <<>>
    ELSE InsertByHeight(s[Len(s)], SortByHeight(SubSeq(s, 1, Len(s) - 1)))

\* f.contentLength ? (parseInt(f.contentLength) / (1024*1024)).toFixed(2) + ' MB'
\*                 : 'Unknown Size'
\* the size is kept in hundredths of a megabyte, rounded as toFixed(2) rounds
SizeText(f) ==
    IF f.contentLength = <<>> THEN <<"Unknown Size">>
    ELSE <<(f.contentLength[1] * 100 + 524288) \div 1048576, "MB">>

FormatEntry(f) ==
    [quality |-> f.qualityLabel, container |-> f.container,
     itag |-> f.itag, contentLength |-> SizeText(f)]

\* the synthetic entry pushed after the map
AudioOnlyEntry ==
    [quality |-> "MP3 (Audio Only)", container |-> "mp3",
     itag |-> "bestaudio", contentLength |-> <<"Varies">>]

\* the mapped list without the push of the synthetic entry
FinalFormats_NoPush(v, formats) ==
    [i \in 1..Len(SortByHeight(FilterFormats(v, formats))) |->
        FormatEntry(SortByHeight(FilterFormats(v, formats))[i])]


FinalFormats(v, formats) ==
    Append([i \in 1..Len(SortByHeight(FilterFormats(v, formats))) |->
                FormatEntry(SortByHeight(FilterFormats(v, formats))[i])],
           AudioOnlyEntry)

NoResponse == [status |-> 0, body |-> [kind |-> "none"]]
ErrorResponse(code, text) == [status |-> code, body |-> [kind |-> "error", error |-> text]]

\* res.json(responseData): status stays 200
InfoResponse(v, info) ==
    [status |-> 200,
     body |-> [kind |-> "info", title |-> info.title,
               thumbnail |-> info.thumbnails[Len(info.thumbnails)],
               formats |-> FinalFormats(v, info.formats)]]

\* The request arrives: the guard answers 400, or getInfo is called and awaited.
FetchInfo(v, url) ==
    /\ ipc \in {"idle", "done"}
    /\ ireq' = [variant |-> v, url |-> url]
    /\ iinfo' = NoInfo
    /\ ierr' = ""
    /\ IF UrlCheck(v, url) /= ""
       THEN /\ ires' = ErrorResponse(400, UrlCheck(v, url))
            /\ icalls' = 0
            /\ ipc' = "done"
       ELSE /\ ires' = NoResponse
            /\ icalls' = 1
            /\ ipc' = "awaiting"
    /\ UNCHANGED <<dlVars, jobVars>>

\* getInfo resolves: the rest of the try block runs.  thumbnails.slice(-1)[0]
\* is undefined for an empty list, .url then throws and the catch answers.
GetInfoResolve(info) ==
    /\ ipc = "awaiting"
    /\ iinfo' = info
    /\ ires' = IF info.thumbnails = <<>>
               THEN ErrorResponse(500, InfoErrorText(ireq.variant))
               ELSE InfoResponse(ireq.variant, info)
    /\ ipc' = "done"
    /\ UNCHANGED <<ireq, icalls, ierr, dlVars, jobVars>>

\* getInfo rejects with err: the catch block logs err.message and answers
GetInfoReject(err) ==
    /\ ipc = "awaiting"
    /\ ierr' = err
    /\ ires' = ErrorResponse(500, InfoErrorText(ireq.variant))
    /\ ipc' = "done"
    /\ UNCHANGED <<ireq, iinfo, icalls, dlVars, jobVars>>

InitInfo ==
    /\ ipc = "idle"
    /\ ireq = [variant |-> "api_ytdl", url |-> Undefined]
    /\ iinfo = NoInfo
    /\ ires = NoResponse
    /\ icalls = 0
    /\ ierr = ""

NextInfo ==
    \/ \E v \in InfoVariants, url \in Urls : FetchInfo(v, url)
    \/ \E info \in Infos : GetInfoResolve(info)
    \/ \E err \in UpstreamErrors : GetInfoReject(err)

-----------------------------------------------------------------------------
(* Text of file names: sequences of one-character strings                   *)

\* a query parameter holding text that the request does not carry
UndefinedText == <<"<undefined>">>

\* \w of the regular expressions: [A-Za-z0-9_]
WordChars ==
    {"a","b","c","d","e","f","g","h","i","j","k","l","m","n","o","p","q","r",
     "s","t","u","v","w","x","y","z","A","B","C","D","E","F","G","H","I","J",
     "K","L","M","N","O","P","Q","R","S","T","U","V","W","X","Y","Z",
     "0","1","2","3","4","5","6","7","8","9","_"}

\* \s of the regular expressions (the inputs use the blank and the tab)
SpaceChars == {" ", "\t"}

RECURSIVE TrimLeft(_)
TrimLeft(s) ==
    IF s /= <<>> /\ s[1] \in SpaceChars THEN TrimLeft(SubSeq(s, 2, Len(s))) ELSE s

RECURSIVE TrimRight(_)
TrimRight(s) ==
    IF s /= <<>> /\ s[Len(s)] \in SpaceChars
    THEN TrimRight(SubSeq(s, 1, Len(s) - 1)) ELSE s

\* title.replace(/[^\w\s-]/g, '').trim()
CleanTitle(title) ==
    TrimRight(TrimLeft(SelectSeq(title,
        LAMBDA c : c \in WordChars \/ c \in SpaceChars \/ c = "-")))

\* quality.replace(/\s/g, '_')
UnderscoreSpaces(q) == [i \in 1..Len(q) |-> IF q[i] \in SpaceChars THEN "_" ELSE q[i]]

DefaultTitle == <<"v","i","d","e","o">>
AudioSuffix  == <<"_","a","u","d","i","o",".","m","p","3">>
VideoSuffix  == <<".","m","p","4">>

\* `${cleanTitle}_audio.mp3`
AudioFilename(cleanTitle) == cleanTitle \o AudioSuffix

\* `${cleanTitle}_${quality.replace(/\s/g, '_')}.mp4`
VideoFilename(cleanTitle, quality) ==
    cleanTitle \o <<"_">> \o UnderscoreSpaces(quality) \o VideoSuffix

EndsWith(s, suffix) ==
    /\ Len(s) >= Len(suffix)
    /\ SubSeq(s, Len(s) - Len(suffix) + 1, Len(s)) = suffix

-----------------------------------------------------------------------------
(* GET /api/download                                                        *)

DlVariants == {"api_ytdl", "api_muxer", "part_000", "part_001"}

Itags     == {Undefined, "", "bestaudio", "18", "137", "999", "highest"}
Qualities == {UndefinedText, <<"3","6","0","p">>, <<"7","2","0","p"," ","H","D">>}
Titles    == {UndefinedText, <<>>, <<"a"," ","b">>, <<" ","x","/","y","."," ">>}

\* what the extraction library finds behind a URL
ReportedFormats(url) == IF url = ValidUrl THEN {F18, F22, F137, F140, F43} ELSE {}

\* quality names ytdl-core's chooseFormat accepts in place of an itag
QualityKeywords == {"highest", "lowest", "highestaudio", "lowestaudio",
                    "highestvideo", "lowestvideo"}

\* The streams the options handed to ytdl(url, options) let it deliver.
\*   audio path           {filter: 'audioonly'}
\*   video, ytdl-core     {filter: format => format.itag == itag &&
\*                                 format.hasVideo && format.hasAudio}
\*   video, muxer         {filter: 'videoandaudio', quality: itag}
StreamCandidates(v, kind, url, itag) ==
    IF kind = "audio"
    THEN {f \in ReportedFormats(url) : ~f.hasVideo /\ f.hasAudio}
    ELSE IF v = "api_muxer"
         THEN {f \in ReportedFormats(url) :
                  VideoAndAudio(f) /\ (itag \in QualityKeywords \/ f.itag = itag)}
         ELSE {f \in ReportedFormats(url) :
                  f.itag = itag /\ f.hasVideo /\ f.hasAudio}

MissingParamsText == "Video URL aur Format ID (itag) zaruri hai."

\* text of the catch block
CatchText(v) ==
    IF v = "part_001" THEN "Unexpected error during download processing."
    ELSE "Unexpected error during download."

\* text of the .on('error') callbacks
StreamErrorText(v, kind) ==
    IF kind = "audio"
    THEN CASE v \in {"api_ytdl", "api_muxer"} ->
                "MP3 conversion mein galti ho gayi. FFmpeg configuration check karein."
           [] v = "part_000" -> "MP3 conversion mein galti ho gayi."
           [] OTHER -> "MP3 conversion mein galti ho gayi. (Check Vercel Logs)"
    ELSE IF v = "part_001" THEN "Video download stream mein galti ho gayi."
         ELSE "Video download mein galti ho gayi."

NoHeaders == [contentType |-> "", contentDisposition |-> <<>>]

\* a fresh response object: statusCode 200, nothing sent
FreshResponse ==
    [status |-> 200, headersSent |-> FALSE, ended |-> FALSE,
     hdr |-> NoHeaders, body |-> "", sends |-> 0]

NoStream ==
    [opened |-> "none", pipeline |-> FALSE, state |-> "none",
     format |-> "", chunks |-> 0]

\* res.status(code).send(text) / res.status(code).end(text)
Answer(res, code, text) ==
    [res EXCEPT !.status = code, !.headersSent = TRUE, !.ended = TRUE,
                !.body = text, !.sends = @ + 1]

\* a guard that forgets the format identifier
MissingParams_UrlOnly(url, itag) == ~Truthy(url)

\* if (!url || !itag)
MissingParams(url, itag) == ~Truthy(url) \/ ~Truthy(itag)

\* an error callback without the headersSent test
AnswerIfNotSent_Always(res, text) == Answer(res, 500, text)

\* if (!res.headersSent) { res.status(500).end(text) }
AnswerIfNotSent(res, text) ==
    IF ~res.headersSent THEN Answer(res, 500, text) ELSE res

\* The request arrives and the handler runs to its end: the 400, or the
\* headers and the stream set-up of the try block, or the catch block when
\* quality.replace throws on an undefined quality.
Download(v, url, itag, quality, title) ==
    /\ dpc \in {"idle", "done"}
    /\ dreq' = [variant |-> v, url |-> url, itag |-> itag,
                quality |-> quality, title |-> title]
    /\ LET cleanTitle == CleanTitle(IF title = UndefinedText THEN DefaultTitle ELSE title)
       IN  IF MissingParams(url, itag)
           THEN /\ dres' = Answer(FreshResponse, 400, MissingParamsText)
                /\ dstream' = NoStream
                /\ dpc' = "done"
           ELSE IF itag = "bestaudio"
           THEN /\ dres' = [FreshResponse EXCEPT !.hdr =
                               [contentType |-> "audio/mpeg",
                                contentDisposition |-> AudioFilename(cleanTitle)]]
                /\ dstream' = [NoStream EXCEPT !.opened = "audio",
                                               !.pipeline = TRUE, !.state = "open"]
                /\ dpc' = "streaming"
           ELSE IF quality = UndefinedText
           THEN /\ dres' = AnswerIfNotSent(FreshResponse, CatchText(v))
                /\ dstream' = NoStream
                /\ dpc' = "done"
           ELSE /\ dres' = [FreshResponse EXCEPT !.hdr =
                               [contentType |-> "video/mp4",
                                contentDisposition |-> VideoFilename(cleanTitle, quality)]]
                /\ dstream' = [NoStream EXCEPT !.opened = "video", !.state = "open"]
                /\ dpc' = "streaming"
    /\ UNCHANGED <<infoVars, jobVars>>

\* the formats the open stream may deliver
OpenCandidates ==
    IF dstream.format /= ""
    THEN {f \in KnownFormats : f.itag = dstream.format}
    ELSE StreamCandidates(dreq.variant, dstream.opened, dreq.url, dreq.itag)

\* .pipe(res): a chunk of the stream is written; the first write sends the
\* headers with the status still 200
StreamData ==
    /\ dpc = "streaming"
    /\ dstream.state = "open"
    /\ dstream.chunks < MaxChunks
    /\ \E f \in OpenCandidates :
          dstream' = [dstream EXCEPT !.format = f.itag, !.chunks = @ + 1]
    /\ dres' = [dres EXCEPT !.headersSent = TRUE]
    /\ UNCHANGED <<dpc, dreq, infoVars, jobVars>>

\* the stream ends: pipe ends the response
StreamEnd ==
    /\ dpc = "streaming"
    /\ dstream.state = "open"
    /\ \E f \in OpenCandidates :
          dstream' = [dstream EXCEPT !.format = f.itag, !.state = "ended"]
    /\ dres' = [dres EXCEPT !.headersSent = TRUE, !.ended = TRUE]
    /\ dpc' = "done"
    /\ UNCHANGED <<dreq, infoVars, jobVars>>

\* the stream (video path) or the ffmpeg command (audio path) emits 'error':
\* the .on('error') callback runs
StreamError ==
    /\ dpc = "streaming"
    /\ dstream.state = "open"
    /\ dstream' = [dstream EXCEPT !.state = "errored"]
    /\ dres' = AnswerIfNotSent(dres, StreamErrorText(dreq.variant, dstream.opened))
    /\ dpc' = "done"
    /\ UNCHANGED <<dreq, infoVars, jobVars>>

\* a late 'error' callback that answers without the headersSent test
StreamLateError_Unguarded ==
    /\ dpc = "done"
    /\ dstream.state \in {"ended", "errored"}
    /\ dstream' = [dstream EXCEPT !.state = "errored"]
    /\ dres' = Answer(dres, 500, StreamErrorText(dreq.variant, dstream.opened))
    /\ UNCHANGED <<dpc, dreq, infoVars, jobVars>>

\* a further 'error' event after the stream has ended or failed: the same
\* .on('error') callback runs again
StreamLateError ==
    /\ dpc = "done"
    /\ dstream.state \in {"ended", "errored"}
    /\ dstream' = [dstream EXCEPT !.state = "errored"]
    /\ dres' = AnswerIfNotSent(dres, StreamErrorText(dreq.variant, dstream.opened))
    /\ UNCHANGED <<dpc, dreq, infoVars, jobVars>>

\* audio path, .pipe(res, { end: true }): the ffmpeg process is gone after
\* the failure, its output closes and the pipe ends the response
PipelineClose ==
    /\ dpc = "done"
    /\ dstream.pipeline
    /\ dstream.state = "errored"
    /\ ~dres.ended
    /\ dres' = [dres EXCEPT !.headersSent = TRUE, !.ended = TRUE]
    /\ UNCHANGED <<dpc, dreq, dstream, infoVars, jobVars>>

InitDl ==
    /\ dpc = "idle"
    /\ dreq = [variant |-> "api_ytdl", url |-> Undefined, itag |-> Undefined,
               quality |-> UndefinedText, title |-> UndefinedText]
    /\ dres = FreshResponse
    /\ dstream = NoStream

NextDl ==
    \/ \E v \in DlVariants, url \in Urls, itag \in Itags,
          quality \in Qualities, title \in Titles :
            Download(v, url, itag, quality, title)
    \/ StreamData
    \/ StreamEnd
    \/ StreamError
    \/ StreamLateError
    \/ PipelineClose

-----------------------------------------------------------------------------
(* downloadVideo and startDownload (src/index.js)                           *)

\* the startDownload requests in flight together: the properties of
\* concurrent requests are about pairs of them
Reqs == {1, 2}

\* identifiers uuidv4() hands out, and one that was never handed out
IssuableIds == {"d1", "d2"}
BogusId     == "d-unknown"
DocIds      == IssuableIds \cup {BogusId}

\* formatId values a client may send: one the extraction call reports for
\* the URL, and a yt-dlp format selector, which it does not report
FormatIds == {"18", "best"}

\* what the yt-dlp process can fail with
ProcessErrors == {"yt-dlp exited with code 1"}

\* `${progress.percent}%`
PercentText(n) == <<n, "%">>
Percents == {50}

\* one temporary file name for every job
TempFilePath_Shared(downloadId) == <<"/tmp/", "video", ".mp4">>

\* path.join(os.tmpdir(), `${downloadId}.mp4`)
TempFilePath(downloadId) == <<"/tmp/", downloadId, ".mp4">>

\* destination: `videos/${downloadId}.mp4`
Destination(downloadId) == <<"videos/", downloadId, ".mp4">>

\* file.metadata.mediaLink of the uploaded object
MediaLink(downloadId) == <<"https://storage/download/">> \o Destination(downloadId)

NoUrl == <<>>
NoDoc == [exists |-> FALSE, progress |-> <<>>, formats |-> {}, downloadUrl |-> NoUrl]

NoJobResponse == [status |-> 0, body |-> [kind |-> "none"]]
NoJobRequest  == [downloadId |-> "", formatId |-> "", url |-> ""]

\* formats: info.formats.map(format => ({format_id, ...}))
FormatIdsOf(url) == {f.itag : f \in ReportedFormats(url)}

\* downloadVideo is called: uuidv4() yields an unused identifier and
\* getVideoInfo is awaited
DV_Request(url) ==
    /\ vpc \in {"idle", "done", "info_failed", "set_failed"}
    /\ \E id \in IssuableIds :
          /\ ~db[id].exists
          /\ vreq' = [url |-> url, downloadId |-> id]
    /\ vres' = NoJobResponse
    /\ vpc' = "info"
    /\ UNCHANGED <<db, files, bucket, pending, jpc, jreq, jres, jlog, nprog>>
    /\ UNCHANGED <<infoVars, dlVars>>

\* getVideoInfo resolves: db...set({progress: "0%", formats}) is awaited
DV_InfoResolve ==
    /\ vpc = "info"
    /\ ReportedFormats(vreq.url) /= {}
    /\ vpc' = "set"
    /\ UNCHANGED <<db, files, bucket, pending, vreq, vres, jpc, jreq, jres, jlog, nprog>>
    /\ UNCHANGED <<infoVars, dlVars>>

\* catch (error) { res.status(500).json({ error: error.message }) }
DV_Catch(err) == ErrorResponse(500, err)

\* getVideoInfo rejects with err
DV_InfoReject(err) ==
    /\ vpc = "info"
    /\ vres' = DV_Catch(err)
    /\ vpc' = "info_failed"
    /\ UNCHANGED <<db, files, bucket, pending, vreq, jpc, jreq, jres, jlog, nprog>>
    /\ UNCHANGED <<infoVars, dlVars>>

\* the set resolves: the record exists and the 200 carries the identifier
DV_SetResolve ==
    /\ vpc = "set"
    /\ db' = [db EXCEPT ![vreq.downloadId] =
                 [exists |-> TRUE, progress |-> PercentText(0),
                  formats |-> FormatIdsOf(vreq.url), downloadUrl |-> NoUrl]]
    /\ vres' = [status |-> 200,
                body |-> [kind |-> "job", downloadId |-> vreq.downloadId,
                          formats |-> FormatIdsOf(vreq.url)]]
    /\ vpc' = "done"
    /\ UNCHANGED <<files, bucket, pending, vreq, jpc, jreq, jres, jlog, nprog>>
    /\ UNCHANGED <<infoVars, dlVars>>

\* the set rejects with err
DV_SetReject(err) ==
    /\ vpc = "set"
    /\ vres' = DV_Catch(err)
    /\ vpc' = "set_failed"
    /\ UNCHANGED <<db, files, bucket, pending, vreq, jpc, jreq, jres, jlog, nprog>>
    /\ UNCHANGED <<infoVars, dlVars>>

\* startDownload is called with {downloadId, formatId, url}: the handler
\* starts yt-dlp with --format formatId --output tempFilePath and returns.
\* A client knows the identifiers downloadVideo answered with, and may send
\* one that was never issued.  Requests are numbered in order of arrival.
SD_Start(r, downloadId, formatId, url) ==
    /\ jpc[r] = "idle"
    /\ \A q \in Reqs : q < r => jpc[q] /= "idle"
    /\ db[downloadId].exists \/ downloadId = BogusId
    /\ jreq' = [jreq EXCEPT ![r] =
                   [downloadId |-> downloadId, formatId |-> formatId, url |-> url]]
    /\ jpc' = [jpc EXCEPT ![r] = "running"]
    /\ UNCHANGED <<db, files, bucket, pending, vpc, vreq, vres, jres, jlog, nprog>>
    /\ UNCHANGED <<infoVars, dlVars>>

\* .on("progress"): the update is issued and not awaited
SD_Progress(r, percent) ==
    /\ jpc[r] = "running"
    /\ nprog[r] < MaxProgress
    /\ nprog' = [nprog EXCEPT ![r] = @ + 1]
    /\ pending' = pending \cup
          {[by |-> r, seq |-> nprog[r] + 1, doc |-> jreq[r].downloadId,
            progress |-> PercentText(percent)]}
    /\ UNCHANGED <<db, files, bucket, vpc, vreq, vres, jpc, jreq, jres, jlog>>
    /\ UNCHANGED <<infoVars, dlVars>>

\* Firestore applies an update in flight; update() of a document that does
\* not exist is rejected, and nothing handles the rejection
ApplyWrite(w) ==
    /\ w \in pending
    /\ pending' = pending \ {w}
    /\ db' = IF db[w.doc].exists
             THEN [db EXCEPT ![w.doc].progress = w.progress]
             ELSE db
    /\ UNCHANGED <<files, bucket, vpc, vreq, vres, jpc, jreq, jres, jlog, nprog>>
    /\ UNCHANGED <<infoVars, dlVars>>

\* .on("error"): res.status(500).json({ error: error.message })
SD_ProcError(r, err) ==
    /\ jpc[r] = "running"
    /\ jres' = [jres EXCEPT ![r] = ErrorResponse(500, err)]
    /\ jpc' = [jpc EXCEPT ![r] = "failed"]
    /\ UNCHANGED <<db, files, bucket, pending, vpc, vreq, vres, jreq, jlog, nprog>>
    /\ UNCHANGED <<infoVars, dlVars>>

\* a close handler that does not await the upload before deleting the file
SD_Close_UnlinkFirst(r) ==
    /\ jpc[r] = "running"
    /\ files' = files \ {TempFilePath(jreq[r].downloadId)}
    /\ jlog' = [jlog EXCEPT ![r] = @ \o <<"unlink">>]
    /\ jpc' = [jpc EXCEPT ![r] = "uploading"]
    /\ UNCHANGED <<db, bucket, pending, vpc, vreq, vres, jreq, jres, nprog>>
    /\ UNCHANGED <<infoVars, dlVars>>

\* .on("close"): yt-dlp exited with the file written; the handler calls
\* bucket.upload(tempFilePath, ...) and awaits it
SD_Close(r) ==
    /\ jpc[r] = "running"
    /\ files' = files \cup {TempFilePath(jreq[r].downloadId)}
    /\ jpc' = [jpc EXCEPT ![r] = "uploading"]
    /\ UNCHANGED <<db, bucket, pending, vpc, vreq, vres, jreq, jres, jlog, nprog>>
    /\ UNCHANGED <<infoVars, dlVars>>

\* the upload resolves: fs.unlinkSync(tempFilePath) runs, then the update
\* to progress "100%" and downloadUrl is issued and awaited.  unlinkSync
\* throws when the file is gone and the handler's promise is rejected.
SD_UploadResolve(r) ==
    /\ jpc[r] = "uploading"
    /\ bucket' = bucket \cup {Destination(jreq[r].downloadId)}
    /\ IF TempFilePath(jreq[r].downloadId) \in files
       THEN /\ files' = files \ {TempFilePath(jreq[r].downloadId)}
            /\ jlog' = [jlog EXCEPT ![r] = @ \o <<"upload", "unlink">>]
            /\ jpc' = [jpc EXCEPT ![r] = "updating"]
       ELSE /\ files' = files
            /\ jlog' = [jlog EXCEPT ![r] = @ \o <<"upload">>]
            /\ jpc' = [jpc EXCEPT ![r] = "dead"]
    /\ UNCHANGED <<db, pending, vpc, vreq, vres, jreq, jres, nprog>>
    /\ UNCHANGED <<infoVars, dlVars>>

\* the upload rejects: nothing after the await runs
SD_UploadReject(r) ==
    /\ jpc[r] = "uploading"
    /\ jpc' = [jpc EXCEPT ![r] = "dead"]
    /\ UNCHANGED <<db, files, bucket, pending, vpc, vreq, vres, jreq, jres, jlog, nprog>>
    /\ UNCHANGED <<infoVars, dlVars>>

\* the final update resolves: the record holds "100%" and downloadUrl, and
\* res.status(200).json({ downloadUrl }) is sent
SD_UpdateResolve(r) ==
    /\ jpc[r] = "updating"
    /\ db[jreq[r].downloadId].exists
    /\ db' = [db EXCEPT ![jreq[r].downloadId].progress = PercentText(100),
                        ![jreq[r].downloadId].downloadUrl = MediaLink(jreq[r].downloadId)]
    /\ jres' = [jres EXCEPT ![r] =
                   [status |-> 200,
                    body |-> [kind |-> "url",
                              downloadUrl |-> MediaLink(jreq[r].downloadId)]]]
    /\ jlog' = [jlog EXCEPT ![r] = @ \o <<"update", "respond">>]
    /\ jpc' = [jpc EXCEPT ![r] = "done"]
    /\ UNCHANGED <<files, bucket, pending, vpc, vreq, vres, jreq, nprog>>
    /\ UNCHANGED <<infoVars, dlVars>>

\* the final update rejects (the document does not exist, or the write
\* fails): nothing after the await runs
SD_UpdateReject(r) ==
    /\ jpc[r] = "updating"
    /\ jpc' = [jpc EXCEPT ![r] = "dead"]
    /\ UNCHANGED <<db, files, bucket, pending, vpc, vreq, vres, jreq, jres, jlog, nprog>>
    /\ UNCHANGED <<infoVars, dlVars>>

InitJob ==
    /\ db = [d \in DocIds |-> NoDoc]
    /\ files = {}
    /\ bucket = {}
    /\ pending = {}
    /\ vpc = "idle"
    /\ vreq = [url |-> "", downloadId |-> ""]
    /\ vres = NoJobResponse
    /\ jpc = [r \in Reqs |-> "idle"]
    /\ jreq = [r \in Reqs |-> NoJobRequest]
    /\ jres = [r \in Reqs |-> NoJobResponse]
    /\ jlog = [r \in Reqs |-> <<>>]
    /\ nprog = [r \in Reqs |-> 0]

NextJob ==
    \/ DV_Request(ValidUrl)
    \/ DV_InfoResolve
    \/ \E err \in UpstreamErrors : DV_InfoReject(err)
    \/ DV_SetResolve
    \/ \E err \in UpstreamErrors : DV_SetReject(err)
    \/ \E r \in Reqs, d \in DocIds, f \in FormatIds :
          SD_Start(r, d, f, ValidUrl)
    \/ \E r \in Reqs, p \in Percents : SD_Progress(r, p)
    \/ \E w \in pending : ApplyWrite(w)
    \/ \E r \in Reqs, err \in ProcessErrors : SD_ProcError(r, err)
    \/ \E r \in Reqs : SD_Close(r)
    \/ \E r \in Reqs : SD_UploadResolve(r)
    \/ \E r \in Reqs : SD_UploadReject(r)
    \/ \E r \in Reqs : SD_UpdateResolve(r)
    \/ \E r \in Reqs : SD_UpdateReject(r)

-----------------------------------------------------------------------------
(* Specifications *)

Init == InitInfo /\ InitDl /\ InitJob

SpecInfo     == Init /\ [][NextInfo]_vars
SpecDownload == Init /\ [][NextDl]_vars
SpecJob      == Init /\ [][NextJob]_vars

\* The Express application (module.exports = app) and the Firebase functions
\* (exports.downloadVideo, exports.startDownload) are separate deployments: a
\* running service is one or the other.
NextService ==
    \/ InitJob /\ NextDl
    \/ InitDl /\ NextJob

SpecService == Init /\ [][NextService]_vars

-----------------------------------------------------------------------------
(* Properties of POST /api/fetch-info, checked under SpecInfo               *)

\* the URL of the request in hand is missing or empty
UrlAbsent == ireq.url = Undefined \/ ireq.url = ""

Answered400 ==
    /\ ipc = "done"
    /\ ires.status = 400
    /\ ires.body.kind = "error"
    /\ icalls = 0

\* C1 as stated: in every fetch-info handler a request whose url is missing,
\* empty or rejected by the platform validity check (ytdl.validateURL) is
\* answered 400 with an {error} body and getInfo is never called for it.
C1_EveryHandlerRejectsInvalidUrl ==
    (ipc /= "idle" /\ (UrlAbsent \/ ~ValidateURL(ireq.url))) => Answered400

\* C1 as amended: a missing or empty url is answered 400 without a getInfo
\* call in every handler; a url that validateURL rejects is answered 400
\* without a getInfo call in the handlers that call validateURL; the
\* ytdl-core-muxer handler hands every non-empty url to getInfo.
C1_RejectedUrlIs400 ==
    /\ (ipc /= "idle" /\ (UrlAbsent \/ (ChecksValidity(ireq.variant) /\ ~ValidateURL(ireq.url))))
          => Answered400
    /\ (ipc /= "idle" /\ ireq.variant = "api_muxer" /\ ~UrlAbsent) => icalls = 1

\* a url that fails the validity check was answered 400 by a checking handler
C1_Witness ==
    /\ ipc = "done"
    /\ ireq.variant = "part_000"
    /\ ireq.url = InvalidUrl
    /\ ires.status = 400
    /\ icalls = 0

\* the entries of the response other than the synthetic one
VideoEntries == SelectSeq(ires.body.formats, LAMBDA e : e.itag /= "bestaudio")

\* a reported format that has a quality label, container mp4, video and audio
Qualifies(f) ==
    f.qualityLabel /= "" /\ f.container = "mp4" /\ f.hasVideo /\ f.hasAudio

SourceOf(e) == CHOOSE f \in KnownFormats : f.itag = e.itag

Count(seq, P(_)) == Cardinality({i \in 1..Len(seq) : P(seq[i])})

\* C3: in a successful fetch-info response the entries other than the
\* synthetic audio-only one are exactly the reported formats with a quality
\* label, container mp4, video and audio (each as often as it was reported,
\* none added), in non-increasing order of the source format's height.
C3_FilteredAndSorted ==
    ires.status = 200 =>
        /\ \A i \in 1..Len(VideoEntries) :
              /\ \E f \in KnownFormats : f.itag = VideoEntries[i].itag
              /\ VideoEntries[i].quality = SourceOf(VideoEntries[i]).qualityLabel
              /\ VideoEntries[i].container = SourceOf(VideoEntries[i]).container
        /\ \A f \in KnownFormats :
              Count(VideoEntries, LAMBDA e : e.itag = f.itag)
                 = IF Qualifies(f) THEN Count(iinfo.formats, LAMBDA g : g = f) ELSE 0
        /\ \A i, j \in 1..Len(VideoEntries) :
              i < j => SourceOf(VideoEntries[i]).height[1]
                          >= SourceOf(VideoEntries[j]).height[1]

\* a response in which the filter dropped a format and the sort moved one
C3_Witness ==
    /\ ires.status = 200
    /\ iinfo.formats = <<F18, F137, F22>>
    /\ Len(VideoEntries) = 2
    /\ VideoEntries[1].itag = "22"

\* C4: every successful fetch-info response holds exactly one synthetic
\* audio-only entry (itag 'bestaudio', container 'mp3') and it is the last
\* element of formats, whatever list the extraction call reported.
C4_OneAudioEntryLast ==
    ires.status = 200 =>
        /\ Len(ires.body.formats) >= 1
        /\ ires.body.formats[Len(ires.body.formats)].itag = "bestaudio"
        /\ ires.body.formats[Len(ires.body.formats)].container = "mp3"
        /\ Count(ires.body.formats, LAMBDA e : e.itag = "bestaudio") = 1
        /\ Count(ires.body.formats, LAMBDA e : e.container = "mp3") = 1

\* formats were reported, none passed the filter, the entry is still there
C4_Witness ==
    /\ ires.status = 200
    /\ iinfo.formats = <<F137, F43>>
    /\ ires.body.formats = <<AudioOnlyEntry>>

-----------------------------------------------------------------------------
(* Properties of GET /api/download, checked under SpecDownload              *)

ParamAbsent(x) == x = Undefined \/ x = ""

\* C2: a download request in which url or itag is missing or empty is
\* answered 400; no extraction stream is opened, no transcoding pipeline is
\* started and neither Content-Type nor Content-Disposition is set.
C2_MissingParamsIs400 ==
    (dpc /= "idle" /\ (ParamAbsent(dreq.url) \/ ParamAbsent(dreq.itag))) =>
        /\ dres.status = 400
        /\ dres.ended
        /\ dstream.opened = "none"
        /\ ~dstream.pipeline
        /\ dres.hdr.contentType = ""
        /\ dres.hdr.contentDisposition = <<>>

\* a request with a url and an empty itag was answered 400
C2_Witness ==
    /\ dpc = "done"
    /\ dreq.url = ValidUrl
    /\ dreq.itag = ""
    /\ dres.status = 400
    /\ dstream.opened = "none"

\* C5 as stated: for every download request with url and itag present the
\* Content-Type and the attachment filename match the format kind
\* (bestaudio: audio/mpeg and ..._audio.mp3; any other itag: video/mp4 and
\* ....mp4), whether or not quality and title are supplied.
C5_HeadersMatchKind ==
    (dpc /= "idle" /\ ~ParamAbsent(dreq.url) /\ ~ParamAbsent(dreq.itag)) =>
        IF dreq.itag = "bestaudio"
        THEN /\ dres.hdr.contentType = "audio/mpeg"
             /\ EndsWith(dres.hdr.contentDisposition, AudioSuffix)
        ELSE /\ dres.hdr.contentType = "video/mp4"
             /\ EndsWith(dres.hdr.contentDisposition, VideoSuffix)

\* C7: when the stream or the transcoding pipeline emits an error before the
\* headers were sent the response is ended with status 500; when it emits
\* one after the headers were sent the status is not changed and no second
\* response is written; on the video path and on the audio path.
C7_StreamErrorHandling ==
    [][(dstream.state = "open" /\ dstream'.state = "errored") =>
          IF ~dres.headersSent
          THEN /\ dres'.status = 500
               /\ dres'.ended
               /\ dres'.headersSent
               /\ dres'.sends = 1
          ELSE dres' = dres]_vars

\* the audio path failed after a chunk had been written: still 200, one
\* response
C7_Witness ==
    /\ dstream.state = "errored"
    /\ dstream.opened = "audio"
    /\ dstream.chunks > 0
    /\ dres.status = 200
    /\ dres.sends = 0

-----------------------------------------------------------------------------
(* Properties of downloadVideo and startDownload, checked under SpecJob     *)

\* C6 as stated: in every variant a failed extraction call is answered 500
\* with a fixed generic body in which the upstream error's message does not
\* appear.
C6_GenericUpstreamFailure ==
    /\ ierr /= "" =>
          /\ ires.status = 500
          /\ ires.body.error \notin UpstreamErrors
    /\ vpc = "info_failed" =>
          /\ vres.status = 500
          /\ vres.body.error \notin UpstreamErrors

Started(r) == jpc[r] /= "idle"

\* C8 as stated: a download is only ever started for a format identifier
\* that is 'bestaudio' or one the extraction library reports for the URL,
\* and no other identifier is answered with success.
C8_OnlyReportedFormats ==
    \A r \in Reqs :
        /\ Started(r) =>
              jreq[r].formatId \in FormatIdsOf(jreq[r].url) \cup {"bestaudio"}
        /\ jres[r].status = 200 =>
              jreq[r].formatId \in FormatIdsOf(jreq[r].url) \cup {"bestaudio"}

CloseSteps == <<"upload", "unlink", "update", "respond">>

IsPrefix(s, t) == Len(s) <= Len(t) /\ s = SubSeq(t, 1, Len(s))

Has(seq, x) == \E i \in 1..Len(seq) : seq[i] = x

\* C9: after the download process closes the handler uploads the file,
\* then deletes it, then updates the record to "100%" with downloadUrl,
\* then answers 200 with that downloadUrl, each step only after the one
\* before it succeeded; a record holds a downloadUrl only if the upload
\* completed and the file is not deleted before the upload completed.
C9_CloseOrder ==
    /\ \A r \in Reqs :
          /\ IsPrefix(jlog[r], CloseSteps)
          /\ Has(jlog[r], "unlink") => Destination(jreq[r].downloadId) \in bucket
          /\ jres[r].status = 200 =>
                /\ jlog[r] = CloseSteps
                /\ jres[r].body.downloadUrl = MediaLink(jreq[r].downloadId)
                /\ db[jreq[r].downloadId].downloadUrl = jres[r].body.downloadUrl
          /\ (jpc[r] \in {"running", "uploading"}) => jlog[r] = <<>>
    /\ \A d \in DocIds :
          db[d].downloadUrl /= NoUrl =>
              /\ Destination(d) \in bucket
              /\ db[d].downloadUrl = MediaLink(d)

\* a request went through all four steps
C9_Witness ==
    \E r \in Reqs :
        /\ jpc[r] = "done"
        /\ jlog[r] = CloseSteps
        /\ jres[r].status = 200
        /\ TempFilePath(jreq[r].downloadId) \notin files
        /\ db[jreq[r].downloadId].progress = PercentText(100)

\* the step is one made on behalf of startDownload request r
ActsFor(r) ==
    \/ jpc'[r] /= jpc[r]
    \/ nprog'[r] /= nprog[r]
    \/ \E w \in pending : w \notin pending' /\ w.by = r

InFlight(q) == jpc[q] \in {"running", "uploading", "updating"}

\* the temporary file, the job record and the response of request q are
\* what they were
Untouched(q) ==
    /\ (TempFilePath(jreq[q].downloadId) \in files')
          = (TempFilePath(jreq[q].downloadId) \in files)
    /\ db'[jreq[q].downloadId] = db[jreq[q].downloadId]
    /\ jres'[q] = jres[q]
    /\ jpc'[q] = jpc[q]

\* C10 as stated: no step made for one request touches the temporary file,
\* the job record or the response of another request in flight.
C10_RequestsIndependent ==
    [][\A q \in Reqs : InFlight(q) =>
          /\ \A r \in Reqs \ {q} : ActsFor(r) => Untouched(q)
          /\ vpc' /= vpc => Untouched(q)]_vars

\* C10 as amended: the same, for requests that carry different downloadIds.
C10_DistinctJobsIndependent ==
    [][\A q \in Reqs : InFlight(q) =>
          /\ \A r \in Reqs \ {q} :
                (ActsFor(r) /\ jreq[r].downloadId /= jreq[q].downloadId)
                    => Untouched(q)
          /\ vpc' /= vpc => Untouched(q)]_vars

\* two jobs with different identifiers overlapped: one finished while the
\* other, which had reported progress, was still writing its record
C10_Witness ==
    \E r, q \in Reqs :
        /\ jreq[r].downloadId /= jreq[q].downloadId
        /\ jpc[r] = "done"
        /\ jpc[q] = "updating"
        /\ nprog[q] > 0

-----------------------------------------------------------------------------
(* Properties of the responses of both services, checked under SpecService  *)

\* a step made by the stream, the pipeline or one of their callbacks, as
\* opposed to the arrival of the next request
DlEventStep == dstream'.state \in {"ended", "errored"} \/ dstream'.chunks > 0

StreamStep == StreamData \/ StreamEnd \/ StreamError \/ PipelineClose

\* what the download process, the upload and the record update of request r
\* can still do
UpstreamStep(r) ==
    \/ \E err \in ProcessErrors : SD_ProcError(r, err)
    \/ SD_Close(r)
    \/ SD_UploadResolve(r)
    \/ SD_UploadReject(r)
    \/ SD_UpdateResolve(r)
    \/ SD_UpdateReject(r)

\* C12: every accepted request eventually gets a finished response. Once
\* every upstream operation of a request has completed or reported its
\* error, a download request that passed validation has its response ended
\* and a startDownload request has received a 200 or a 500.
C12_AcceptedRequestFinishes ==
    /\ (/\ dpc /= "idle"
        /\ ~MissingParams(dreq.url, dreq.itag)
        /\ ~ENABLED StreamStep) => dres.ended
    /\ \A r \in Reqs :
          (Started(r) /\ ~ENABLED UpstreamStep(r)) => jres[r].status \in {200, 500}

-----------------------------------------------------------------------------
(* Properties of the job record, checked under SpecJob                      *)

\* C13: the job record's progress is final once completed. A request that
\* was answered 200 has a record with progress "100%" and the downloadUrl
\* it returned, and a record that holds progress "100%" keeps it in every
\* later step, however the progress updates that were not awaited interleave
\* with the final update.
C13_CompletedProgressIsFinal ==
    /\ [](\A r \in Reqs : jres[r].status = 200 =>
             /\ db[jreq[r].downloadId].progress = PercentText(100)
             /\ db[jreq[r].downloadId].downloadUrl = jres[r].body.downloadUrl)
    /\ [][\A d \in DocIds : db[d].progress = PercentText(100) =>
             db'[d].progress = PercentText(100)]_vars

=============================================================================
